---------------------------- MODULE Spec2Model ----------------------------
(***************************************************************************)
(* A model of the two code generators of the repository:                   *)
(*   src/test.py         the opcode-table transpiler (read_cell, do_table, *)
(*                       the render loop and the final print);             *)
(*   src/core/colors.py  the palette transpiler.                           *)
(* Text is modelled as a sequence of one-character strings, and every      *)
(* regular expression of the source as an operator computing what Python's *)
(* re module computes for it (re.match anchors at the start only, re.sub   *)
(* replaces the leftmost non-overlapping matches, alternatives are tried   *)
(* in order).                                                              *)
(***************************************************************************)
EXTENDS Integers, Sequences, FiniteSets, TLC

-----------------------------------------------------------------------------
(* Characters and character classes.                                       *)

\* The character U+00A0 (the "\xa0" of the patterns of read_cell).
NBSP == "nbsp"

Digit == {"0", "1", "2", "3", "4", "5", "6", "7", "8", "9"}

Lower == {"a", "b", "c", "d", "e", "f", "g", "h", "i", "j", "k", "l", "m",
          "n", "o", "p", "q", "r", "s", "t", "u", "v", "w", "x", "y", "z"}

Upper == {"A", "B", "C", "D", "E", "F", "G", "H", "I", "J", "K", "L", "M",
          "N", "O", "P", "Q", "R", "S", "T", "U", "V", "W", "X", "Y", "Z"}

\* \w of a pattern compiled without re.UNICODE.
WordChar == Digit \cup Lower \cup Upper \cup {"_"}

\* \s of a pattern compiled without re.UNICODE (U+00A0 is not in it).
White == {" ", "\t", "\n", "\r"}

\* The class [a-z0-9+-] of the indirect-operand pattern.
IndirectChar == Lower \cup Digit \cup {"+", "-"}

-----------------------------------------------------------------------------
(* Building blocks of the regular expressions.                             *)

\* The literal lit occurs in s at position p.
StartsAt(s, p, lit) ==
    /\ p + Len(lit) - 1 <= Len(s)
    /\ SubSeq(s, p, p + Len(lit) - 1) = lit

\* \b between s[p-1] and s[p] (p in 1..Len(s)+1).
WordBoundary(s, p) ==
    LET before == p > 1 /\ s[p - 1] \in WordChar
        after  == p <= Len(s) /\ s[p] \in WordChar
    IN  before # after

\* The length of the longest run of characters of class cls starting at p.
RECURSIVE RunLen(_, _, _)
RunLen(s, p, cls) ==
    IF p <= Len(s) /\ s[p] \in cls THEN 1 + RunLen(s, p + 1, cls) ELSE 0

\* (a|b|...) at p, optionally followed by \b: the length of the first
\* alternative, in the order written, with which the match succeeds; 0 if none.
FirstAlt(s, p, alts, wb) ==
    LET ok(i) == /\ StartsAt(s, p, alts[i])
                 /\ (wb => WordBoundary(s, p + Len(alts[i])))
    IN  IF \E i \in 1..Len(alts) : ok(i)
        THEN Len(alts[CHOOSE i \in 1..Len(alts) :
                        ok(i) /\ \A j \in 1..(i - 1) : ~ok(j)])
        ELSE 0

\* sep.join(parts)
RECURSIVE Join(_, _)
Join(sep, parts) ==
    IF parts = <<>> THEN <<>>
    ELSE IF Len(parts) = 1 THEN parts[1]
    ELSE parts[1] \o sep \o Join(sep, Tail(parts))

\* The positions of s at which sep occurs.
Occurs(s, sep) == {q \in 1..Len(s) : StartsAt(s, q, sep)}

\* The first of the positions at that is not before p, 0 if there is none.
NextSep(at, p) ==
    LET rest == {q \in at : q >= p}
    IN  IF rest = {} THEN 0 ELSE CHOOSE q \in rest : \A r \in rest : q <= r

\* The pieces of s from p on, between the occurrences of sep taken from the
\* left, none overlapping the one before.
RECURSIVE SplitLitFrom(_, _, _, _, _)
SplitLitFrom(s, sep, at, p, acc) ==
    LET q == NextSep(at, p)
    IN  IF q = 0 THEN Append(acc, SubSeq(s, p, Len(s)))
        ELSE SplitLitFrom(s, sep, at, q + Len(sep), Append(acc, SubSeq(s, p, q - 1)))

\* s.split(sep) for a non-empty literal separator.
SplitLit(s, sep) == SplitLitFrom(s, sep, Occurs(s, sep), 1, <<>>)

\* re.split("\s+|,", s)
RECURSIVE SplitItemsFrom(_, _, _, _)
SplitItemsFrom(s, p, cur, acc) ==
    IF p > Len(s) THEN Append(acc, cur)
    ELSE IF s[p] \in White
         THEN SplitItemsFrom(s, p + RunLen(s, p, White), <<>>, Append(acc, cur))
         ELSE IF s[p] = ","
              THEN SplitItemsFrom(s, p + 1, <<>>, Append(acc, cur))
              ELSE SplitItemsFrom(s, p + 1, Append(cur, s[p]), acc)

SplitItems(s) == SplitItemsFrom(s, 1, <<>>, <<>>)

\* int(c) of one decimal digit.
DigitVal(c) ==
    CASE c = "0" -> 0 [] c = "1" -> 1 [] c = "2" -> 2 [] c = "3" -> 3
      [] c = "4" -> 4 [] c = "5" -> 5 [] c = "6" -> 6 [] c = "7" -> 7
      [] c = "8" -> 8 [] c = "9" -> 9

\* int(s) of a non-empty string of decimal digits.
RECURSIVE ToInt(_)
ToInt(s) ==
    IF Len(s) = 0 THEN 0
    ELSE 10 * ToInt(SubSeq(s, 1, Len(s) - 1)) + DigitVal(s[Len(s)])

-----------------------------------------------------------------------------
(* The name lists and literals of read_cell.                               *)

\* ["Z", "NZ", "C", "NC"]
CondNames == << <<"Z">>, <<"N", "Z">>, <<"C">>, <<"N", "C">> >>

\* ["AF", "BC", "DE", "HL", "HLP", "HLS", "SP", "PC"]
Reg16Names == << <<"A", "F">>, <<"B", "C">>, <<"D", "E">>, <<"H", "L">>,
                 <<"H", "L", "P">>, <<"H", "L", "S">>, <<"S", "P">>,
                 <<"P", "C">> >>

\* ["A", "F", "B", "C", "D", "E", "H", "L"]
Reg8Names == << <<"A">>, <<"F">>, <<"B">>, <<"C">>, <<"D">>, <<"E">>,
                <<"H">>, <<"L">> >>

\* (JP|JR|CALL|RET)
BranchNames == << <<"J", "P">>, <<"J", "R">>, <<"C", "A", "L", "L">>,
                  <<"R", "E", "T">> >>

\* (SET|BIT|RES)
BitOpNames == << <<"S", "E", "T">>, <<"B", "I", "T">>, <<"R", "E", "S">> >>

\* The separator of the three lines of a cell.
BR == <<"<", "b", "r", "/", ">">>

\* The field types the decoder names.
TCond  == <<"C", "o", "n", "d">>
TReg16 == <<"R", "e", "g", "1", "6">>
TReg8  == <<"R", "e", "g", "8">>
TU8    == <<"u", "8">>
TU16   == <<"u", "1", "6">>
TI8    == <<"i", "8">>

\* A slip in the table: r8 read as unsigned.
convUnsignedOffset ==
    (<<"d", "8">> :> TU8) @@ (<<"d", "1", "6">> :> TU16)
    @@ (<<"a", "8">> :> TU8) @@ (<<"a", "1", "6">> :> TU16)
    @@ (<<"r", "8">> :> TU8)

\* The dictionary conv of read_cell, as a function on its five keys.
conv == (<<"d", "8">> :> TU8) @@ (<<"d", "1", "6">> :> TU16)
        @@ (<<"a", "8">> :> TU8) @@ (<<"a", "1", "6">> :> TU16)
        @@ (<<"r", "8">> :> TI8)

-----------------------------------------------------------------------------
(* The regular expressions of the normalisation chain: for each, the       *)
(* length of its match at position p of s (0: no match there).  None of    *)
(* them matches the empty string.                                          *)

\* "HL\+"
MatchHLPlus(s, p) == IF StartsAt(s, p, <<"H", "L", "+">>) THEN 3 ELSE 0

\* "\+"
MatchPlus(s, p) == IF StartsAt(s, p, <<"+">>) THEN 1 ELSE 0

\* "HL\-"
MatchHLMinus(s, p) == IF StartsAt(s, p, <<"H", "L", "-">>) THEN 3 ELSE 0

\* r"(SET|BIT|RES) [0-9]+"
MatchBitIndex(s, p) ==
    LET n1 == FirstAlt(s, p, BitOpNames, FALSE)
        nd == RunLen(s, p + n1 + 1, Digit)
    IN  IF n1 > 0 /\ StartsAt(s, p + n1, <<" ">>) /\ nd > 0
        THEN n1 + 1 + nd ELSE 0

\* r"(JP|JR|CALL|RET) (Z|NZ|C|NC)\b".  No two alternatives of a group match
\* at the same place with different lengths, so the first that matches is
\* the only one the engine can use.
MatchCond(s, p) ==
    LET n1 == FirstAlt(s, p, BranchNames, FALSE)
        n2 == FirstAlt(s, p + n1 + 1, CondNames, TRUE)
    IN  IF n1 > 0 /\ StartsAt(s, p + n1, <<" ">>) /\ n2 > 0
        THEN n1 + 1 + n2 ELSE 0

\* r"\b(AF|BC|DE|HL|HLP|HLS|SP|PC)\b"
MatchReg16(s, p) ==
    IF WordBoundary(s, p) THEN FirstAlt(s, p, Reg16Names, TRUE) ELSE 0

\* A slip in the list of names: L left out.
MatchReg8WithoutL(s, p) ==
    IF WordBoundary(s, p)
    THEN FirstAlt(s, p, SubSeq(Reg8Names, 1, Len(Reg8Names) - 1), TRUE)
    ELSE 0

\* r"\b(A|F|B|C|D|E|H|L)\b"
MatchReg8(s, p) ==
    IF WordBoundary(s, p) THEN FirstAlt(s, p, Reg8Names, TRUE) ELSE 0

\* r"\b[0-9]+H\b"
MatchHexLit(s, p) ==
    LET nd == RunLen(s, p, Digit)
    IN  IF /\ WordBoundary(s, p)
           /\ nd > 0
           /\ StartsAt(s, p + nd, <<"H">>)
           /\ WordBoundary(s, p + nd + 1)
        THEN nd + 1 ELSE 0

MatchLen(pat, s, p) ==
    CASE pat = "HL+"  -> MatchHLPlus(s, p)
      [] pat = "+"    -> MatchPlus(s, p)
      [] pat = "HL-"  -> MatchHLMinus(s, p)
      [] pat = "bit"  -> MatchBitIndex(s, p)
      [] pat = "cond" -> MatchCond(s, p)
      [] pat = "r16"  -> MatchReg16(s, p)
      [] pat = "r8"   -> MatchReg8(s, p)
      [] pat = "lit"  -> MatchHexLit(s, p)

\* Group 1 of a match of the "bit" or the "cond" pattern: the text before
\* the space.
Group1(m) == SubSeq(m, 1, (CHOOSE k \in 1..Len(m) :
                              m[k] = " " /\ \A j \in 1..(k - 1) : m[j] # " ") - 1)

\* The replacement text of each re.sub of the chain, for the matched text m.
Replacement(pat, m) ==
    CASE pat = "HL+"  -> <<"H", "L", "P">>
      [] pat = "+"    -> <<" ">>
      [] pat = "HL-"  -> <<"H", "L", "S">>
      [] pat = "bit"  -> Group1(m) \o <<" ", "l", "8">>
      [] pat = "cond" -> Group1(m) \o <<" ", "C", "O", "N", "D">>
      [] pat = "r16"  -> <<"r", "1", "6">>
      [] pat = "r8"   -> <<"r", "8">>
      [] pat = "lit"  -> <<"L", "I", "T">>

\* re.sub(pat, repl, s): the leftmost non-overlapping matches are replaced,
\* the search resuming where a match ended.
RECURSIVE ReSubFrom(_, _, _)
ReSubFrom(pat, s, p) ==
    IF p > Len(s) THEN <<>>
    ELSE LET n == MatchLen(pat, s, p)
         IN  IF n > 0
             THEN Replacement(pat, SubSeq(s, p, p + n - 1))
                      \o ReSubFrom(pat, s, p + n)
             ELSE <<s[p]>> \o ReSubFrom(pat, s, p + 1)

ReSub(pat, s) == ReSubFrom(pat, s, 1)

\* clean_mnem: the mnemonic after the first three substitutions.
CleanMnem(mnemonic) == ReSub("HL-", ReSub("+", ReSub("HL+", mnemonic)))

\* generic: clean_mnem after the five substitutions that follow, in order.
Generic(clean_mnem) ==
    ReSub("lit", ReSub("r8", ReSub("r16", ReSub("cond",
        ReSub("bit", clean_mnem)))))

-----------------------------------------------------------------------------
(* read_cell.  None is the empty sequence and a present value v is <<v>>.  *)

None == <<>>

Some(v) == <<v>>

\* The truth value Python gives an optional integer: None and 0 are false.
Truthy(v) == v # None /\ v[1] # 0

\* re.match("\xa0+", c)
IsInvalidCell(c) == RunLen(c, 1, {NBSP}) > 0

\* m = re.match("([0-9]+)\xa0+([0-9]+)(?:/([0-9]+))?", l2) and the three
\* integers read from its groups; matched FALSE is m = None.
ParseTiming(l2) ==
    LET n1 == RunLen(l2, 1, Digit)
        ns == RunLen(l2, 1 + n1, {NBSP})
        p2 == 1 + n1 + ns
        n2 == RunLen(l2, p2, Digit)
        p3 == p2 + n2 + 1
        n3 == IF StartsAt(l2, p2 + n2, <<"/">>) THEN RunLen(l2, p3, Digit)
              ELSE 0
    IN  IF n1 > 0 /\ ns > 0 /\ n2 > 0
        THEN [matched |-> TRUE,
              bytes |-> ToInt(SubSeq(l2, 1, n1)),
              cycles |-> ToInt(SubSeq(l2, p2, p2 + n2 - 1)),
              cycles_false |-> IF n3 > 0
                               THEN Some(ToInt(SubSeq(l2, p3, p3 + n3 - 1)))
                               ELSE None]
        ELSE [matched |-> FALSE, bytes |-> 0, cycles |-> 0,
              cycles_false |-> None]

\* A slip: the swap left out.
SwapCyclesNever(cycles, cycles_false) ==
    [cycles |-> cycles, cycles_false |-> cycles_false]

\* if cycles_false: (cycles, cycles_false) = (cycles_false, cycles)
SwapCycles(cycles, cycles_false) ==
    IF Truthy(cycles_false)
    THEN [cycles |-> cycles_false[1], cycles_false |-> Some(cycles)]
    ELSE [cycles |-> cycles, cycles_false |-> cycles_false]

\* re.match(r"\(([a-z0-9+-]+)\)", i): the length of group 1, 0 if no match.
IndirectLen(i) ==
    LET n == RunLen(i, 2, IndirectChar)
    IN  IF StartsAt(i, 1, <<"(">>) /\ n > 0 /\ StartsAt(i, 2 + n, <<")">>)
        THEN n ELSE 0

\* The item appended to new_items for the item i of the generic shape.
ShapeItem(i) ==
    IF IndirectLen(i) > 0
    THEN <<"i">> \o SubSeq(i, 2, 1 + IndirectLen(i))
    ELSE i

\* The string appended to fmt for the item i of the generic shape.
FmtItem(i) ==
    IF IndirectLen(i) > 0
    THEN <<"(", "{", ":", "?", "}", ")">>
    ELSE <<"{", ":", "?", "}">>

\* re.sub(r"\(|\)", "", i)
RECURSIVE StripParens(_)
StripParens(i) ==
    IF i = <<>> THEN <<>>
    ELSE IF Head(i) \in {"(", ")"} THEN StripParens(Tail(i))
    ELSE <<Head(i)>> \o StripParens(Tail(i))

\* re.match(r"(JP|JR|CALL|RET)", name)
IsBranchName(name) == FirstAlt(name, 1, BranchNames, FALSE) > 0

\* The branch of the if/elif chain an operand token i takes (parentheses
\* already removed) under the operation name, and what it appends to init
\* and elems.  Every test is a re.match: it looks at the start of i only.
\* An init entry is the format string followed by its arguments.
DecodeOperand(name, i) ==
    IF IsBranchName(name) /\ FirstAlt(i, 1, CondNames, FALSE) > 0
    THEN [err |-> "", init |-> << <<"Cond::{}">>, i >>, elem |-> TCond]
    ELSE IF FirstAlt(i, 1, Reg16Names, FALSE) > 0
    THEN [err |-> "", init |-> << <<"Reg16::{}">>, i >>, elem |-> TReg16]
    ELSE IF FirstAlt(i, 1, Reg8Names, FALSE) > 0
    THEN [err |-> "", init |-> << <<"Reg8::{}">>, i >>, elem |-> TReg8]
    ELSE IF RunLen(i, 1, Digit) > 0
            /\ StartsAt(i, 1 + RunLen(i, 1, Digit), <<"H">>)
    THEN [err |-> "", init |-> << <<"0x{}">>, SubSeq(i, 1, Len(i) - 1) >>,
          elem |-> TU8]
    ELSE IF RunLen(i, 1, Digit) > 0
    THEN [err |-> "", init |-> << <<"{}">>, i >>, elem |-> TU8]
    ELSE IF Len(i) > 0 /\ i[1] \in Lower /\ RunLen(i, 2, Digit) > 0
    THEN IF i \in DOMAIN conv
         THEN [err |-> "",
               init |-> << <<"read_u{}(bytes)?{}">>,
                           SubSeq(i, 2, 1 + RunLen(i, 2, Digit)),
                           IF conv[i][1] = "u" THEN <<>>
                           ELSE <<" ", "a", "s", " ">> \o conv[i] >>,
               elem |-> conv[i]]
         ELSE [err |-> "KeyError", init |-> <<>>, elem |-> <<>>]
    ELSE [err |-> "AssertionError", init |-> <<>>, elem |-> <<>>]

\* The Gen record of an invalid opcode.
InvalidGen(opcode) ==
    [op |-> opcode, op_name |-> <<"I", "N", "V", "A", "L", "I", "D">>,
     name |-> <<"I", "N", "V", "A", "L", "I", "D">>,
     size |-> 1, cycles |-> 1, cycles_false |-> None,
     fmt |-> << <<"o", "p", "c", "o", "d", "e">> >>,
     init |-> <<>>, elems |-> <<>>]

\* The operand item of clean_mnem with its parentheses removed, and what
\* the if/elif chain does with it.
DecodeItem(name, item) ==
    [tok |-> StripParens(item), dec |-> DecodeOperand(name, StripParens(item))]

\* The first operand on which the loop over the operands stops, 0 if none.
FirstBad(ops) ==
    IF \E k \in 1..Len(ops) : ops[k].dec.err # ""
    THEN CHOOSE k \in 1..Len(ops) :
            /\ ops[k].dec.err # ""
            /\ \A j \in 1..(k - 1) : ops[j].dec.err = ""
    ELSE 0

Failure(e, out) == [err |-> e, out |-> out, g |-> <<>>]

\* The end of read_cell: the loop over the decoded operands ops stops at the
\* first it cannot classify (the failed assertion prints the token first),
\* or the record is built from the generic items, the timing t and ops.
MakeGen(opcode, gitems, ops, bad, t) ==
    IF bad > 0
    THEN Failure(ops[bad].dec.err,
                 IF ops[bad].dec.err = "AssertionError"
                 THEN <<ops[bad].tok>> ELSE <<>>)
    ELSE [err |-> "", out |-> <<>>,
          g |-> [op |-> opcode, op_name |-> gitems[1],
                 name |-> Join(<<"_">>, <<gitems[1]>> \o
                               [k \in 1..(Len(gitems) - 1) |->
                                   ShapeItem(gitems[k + 1])]),
                 size |-> t.bytes, cycles |-> t.cycles,
                 cycles_false |-> t.cycles_false,
                 fmt |-> gitems[1]
                         \o (IF Len(gitems) > 1 THEN <<" ">> ELSE <<>>)
                         \o Join(<<",">>, [k \in 1..(Len(gitems) - 1) |->
                                              FmtItem(gitems[k + 1])]),
                 init |-> [k \in 1..Len(ops) |-> ops[k].dec.init],
                 elems |-> [k \in 1..Len(ops) |-> ops[k].dec.elem]]]

\* The operands of clean_mnem decoded under the name items[0] of the
\* generic shape.
DecodeAll(name, items) ==
    [k \in 1..Len(items) |-> DecodeItem(name, items[k])]

DecodeAndMake(opcode, gitems, ops, t) ==
    MakeGen(opcode, gitems, ops, FirstBad(ops), t)

\* read_cell from the timing match on: m is the match of the timing line,
\* flags the split flag line.
ReadParsed(opcode, clean_mnem, gitems, m, flags) ==
    IF ~m.matched THEN Failure("AttributeError", <<>>)
    ELSE IF Len(flags) # 4 THEN Failure("ValueError", <<>>)
    ELSE DecodeAndMake(opcode, gitems,
                       DecodeAll(gitems[1], Tail(SplitItems(clean_mnem))),
                       [bytes |-> m.bytes] @@ SwapCycles(m.cycles, m.cycles_false))

ReadMnemonic(opcode, clean_mnem, l2, l3) ==
    ReadParsed(opcode, clean_mnem, SplitItems(Generic(clean_mnem)),
               ParseTiming(l2), SplitLit(l3, <<" ">>))

\* read_cell on the three lines of a cell: mnemonic, l2, l3 = c.split("<br/>")
ReadLines(opcode, lines) ==
    IF Len(lines) # 3 THEN Failure("ValueError", <<>>)
    ELSE ReadMnemonic(opcode, CleanMnem(lines[1]), lines[2], lines[3])

\* read_cell(opcode, c): err is "" and g the record stored in gens[opcode],
\* or err names the exception that ends the run and out is what was printed
\* before it (the offending token, for the failed assertion).
ReadCell(opcode, c) ==
    IF IsInvalidCell(c)
    THEN [err |-> "", out |-> <<>>, g |-> InvalidGen(opcode)]
    ELSE ReadLines(opcode, SplitLit(c, BR))

-----------------------------------------------------------------------------
(* The input document.  A table is given by its number of data rows and    *)
(* data columns (the header row and the header column are already dropped, *)
(* as find_all(...)[1:] drops them) and by its cells; a cell is given by   *)
(* the parts its text is written from, so that a property can speak of     *)
(* them, and CellText writes the text read_cell receives.                  *)

\* str(n) for n >= 0.
RECURSIVE Digits(_)
Digits(n) ==
    LET d == <<"0", "1", "2", "3", "4", "5", "6", "7", "8", "9">>[(n % 10) + 1]
    IN  IF n < 10 THEN <<d>> ELSE Digits(n \div 10) \o <<d>>

\* The flag line "Z N H C" of a cell.
FlagText == <<"-", " ", "-", " ", "-", " ", "-">>

\* op, its operands separated by commas.
MnemText(op, args) ==
    op \o (IF Len(args) > 0 THEN <<" ">> ELSE <<>>) \o Join(<<",">>, args)

\* MNEMONIC<br/>BYTES(nbsp)CYCLES[/CYCLES]<br/>Z N H C, after lead
\* non-breaking spaces, with gap non-breaking spaces between BYTES and
\* CYCLES; a cell with body FALSE holds the leading non-breaking spaces
\* alone.
CellText(cell) ==
    [k \in 1..cell.lead |-> NBSP]
    \o (IF cell.body
        THEN MnemText(cell.op, cell.args) \o BR
             \o Digits(cell.bytes) \o [k \in 1..cell.gap |-> NBSP]
             \o Digits(cell.x)
             \o (IF cell.y = None THEN <<>> ELSE <<"/">> \o Digits(cell.y[1]))
             \o BR \o FlagText
        ELSE <<>>)

Instr(op, args, bytes, x, y) ==
    [lead |-> 0, body |-> TRUE, op |-> op, args |-> args, bytes |-> bytes,
     gap |-> 2, x |-> x, y |-> y]

\* The cell of an undefined opcode: one non-breaking space.
Blank ==
    [lead |-> 1, body |-> FALSE, op |-> <<>>, args |-> <<>>, bytes |-> 0,
     gap |-> 0, x |-> 0, y |-> None]

\* The cell at data row r, data column d of table t (both from 0): the cells
\* of t.fill repeat over the table, except where t.at places another cell.
CellAt(t, r, d) ==
    IF <<r, d>> \in DOMAIN t.at THEN t.at[<<r, d>>]
    ELSE t.fill[((r * t.cols + d + t.shift) % Len(t.fill)) + 1]

NonEmpty(t) == t.rows > 0 /\ t.cols > 0

-----------------------------------------------------------------------------
(* The program: do_table on each table, the render loop, the final print.  *)

VARIABLES
    doc,      \* the two tables of the document: [base, extend]
    pc,       \* "base", "extend": in do_table; "render"; "done"; "halted"
    r_id,     \* do_table: the row of the next cell
    d_id,     \* do_table: the column of the next cell
    gens,     \* the dictionary gens: opcode -> Gen
    i,        \* the render loop: how many opcodes of the chain are done
    seen,     \* the keys of the dictionary seen
    display,  \* the lines added to display
    defs,     \* the lines added to defs
    read,     \* the lines added to read
    data,     \* the lines added to data
    stdout,   \* what was printed
    err,      \* the exception that ended the run ("" if none)
    csv,      \* colors.py: the data rows written in the two files
    manual,   \* colors.py: the list manual
    custom,   \* colors.py: the list custom
    colors,   \* colors.py: the keys of the dictionary colors
    all_c,    \* colors.py: the list all_c
    keys,     \* colors.py: the dictionary keys
    matches,  \* colors.py: the dictionary matches
    row,      \* colors.py: how many iterations of the current loop are done
    emitted   \* colors.py: the keys of matches the last loop has passed

vars == <<doc, pc, r_id, d_id, gens, i, seen, display, defs, read, data,
          stdout, err, csv, manual, custom, colors, all_c, keys, matches,
          row, emitted>>

\* The state of colors.py.
paletteVars == <<csv, manual, custom, colors, all_c, keys, matches, row, emitted>>

\* colors.py is not run.
NoPalette ==
    /\ csv = [manual |-> <<>>, custom |-> <<>>]
    /\ manual = <<>>
    /\ custom = <<>>
    /\ colors = {}
    /\ all_c = <<>>
    /\ keys = <<>>
    /\ matches = <<>>
    /\ row = 0
    /\ emitted = {}

\* The prefix given to do_table for the second table.
CBPrefix == 203

Pow2(n) == 2 ^ n

\* a << n
Shl(a, n) == a * Pow2(n)

\* a | b on non-negative integers.
RECURSIVE BitOr(_, _)
BitOr(a, b) ==
    IF a = 0 THEN b
    ELSE IF b = 0 THEN a
    ELSE 2 * BitOr(a \div 2, b \div 2) + (IF a % 2 = 1 \/ b % 2 = 1 THEN 1 ELSE 0)

\* A slip in the row shift: (prefix << 8) | (r_id << 3) | d_id
OpcodeKeyNarrowRow(prefix, r, d) == BitOr(BitOr(Shl(prefix, 8), Shl(r, 3)), d)

\* (prefix << 8) | (r_id << 4) | d_id
OpcodeKey(prefix, r, d) == BitOr(BitOr(Shl(prefix, 8), Shl(r, 4)), d)

\* range(0xCB << 8 + 0, (0xCB << 8) + 0x100): + binds tighter than <<.
ExtLo == Shl(CBPrefix, 8 + 0)

ExtHi == Shl(CBPrefix, 8) + 256

\* len(range(a, b))
RangeLen(a, b) == IF b > a THEN b - a ELSE 0

\* The number of opcodes of itertools.chain(range(0, 256), range(...)).
ChainLen == RangeLen(0, 256) + RangeLen(ExtLo, ExtHi)

\* The n-th opcode (from 0) of the chain.
RenderOrder(n) == IF n < RangeLen(0, 256) THEN n ELSE ExtLo + (n - RangeLen(0, 256))

\* Where do_table stands after the cell (r, d) of table tbl: the next cell
\* of the row, the next row, the next table, or the render loop.
Advance(tbl, r, d) ==
    IF d + 1 < doc[tbl].cols THEN <<tbl, r, d + 1>>
    ELSE IF r + 1 < doc[tbl].rows THEN <<tbl, r + 1, 0>>
    ELSE IF tbl = "base" /\ NonEmpty(doc.extend) THEN <<"extend", 0, 0>>
    ELSE <<"render", 0, 0>>

\* The state in which the module's top level starts on document d.
Start(d) ==
    /\ doc = d
    /\ pc = IF NonEmpty(d.base) THEN "base"
            ELSE IF NonEmpty(d.extend) THEN "extend" ELSE "render"
    /\ r_id = 0
    /\ d_id = 0
    /\ gens = <<>>
    /\ i = 0
    /\ seen = {}
    /\ display = <<>>
    /\ defs = <<>>
    /\ read = <<>>
    /\ data = <<>>
    /\ stdout = <<>>
    /\ err = ""
    /\ NoPalette

\* gens[opcode] = g
Store(m, opcode, g) ==
    [k \in DOMAIN m \cup {opcode} |-> IF k = opcode THEN g ELSE m[k]]

\* One call of read_cell from do_table, on the cell (r_id, d_id).
DoTableStep ==
    /\ pc \in {"base", "extend"}
    /\ LET opcode == OpcodeKey(IF pc = "base" THEN 0 ELSE CBPrefix, r_id, d_id)
           res == ReadCell(opcode, CellText(CellAt(doc[pc], r_id, d_id)))
           nxt == Advance(pc, r_id, d_id)
       IN  IF res.err = ""
           THEN /\ gens' = Store(gens, opcode, res.g)
                /\ pc' = nxt[1]
                /\ r_id' = nxt[2]
                /\ d_id' = nxt[3]
                /\ UNCHANGED <<stdout, err>>
           ELSE /\ pc' = "halted"
                /\ err' = res.err
                /\ stdout' = stdout \o [k \in 1..Len(res.out) |->
                                 [kind |-> "token", op |-> opcode,
                                  body |-> res.out[k]]]
                /\ UNCHANGED <<gens, r_id, d_id>>
    /\ UNCHANGED <<doc, i, seen, display, defs, read, data>>
    /\ UNCHANGED paletteVars

\* The line added to read for the record g of opcode op.
ReadLine(op, g) ==
    [op |-> op % 256, name |-> g.name,
     init |-> IF Len(g.elems) > 0 THEN Some(g.init) ELSE None]

\* The line added to data for the record g (/ is Python 2's integer division).
DataLine(g) ==
    [mnemonic |-> g.op_name, size |-> g.size, cycles |-> g.cycles \div 4,
     cycles_branch |-> IF g.cycles_false = None THEN None
                       ELSE Some(g.cycles_false[1] \div 4)]

\* The line added to display for the record g.
DisplayLine(g) == [name |-> g.name, args |-> Len(g.elems), fmt |-> g.fmt]

\* The line added to defs for the record g.
DefsLine(g) == [name |-> g.name, elems |-> g.elems]

\* One iteration of the render loop.
RenderStep ==
    /\ pc = "render"
    /\ i < ChainLen
    /\ LET op == RenderOrder(i)
       IN  /\ stdout' = Append(stdout, [kind |-> "debug", op |-> op, body |-> <<>>])
           /\ IF op \notin DOMAIN gens
              THEN /\ pc' = "halted"
                   /\ err' = "KeyError"
                   /\ UNCHANGED <<i, seen, display, defs, read, data>>
              ELSE /\ i' = i + 1
                   /\ read' = Append(read, ReadLine(op, gens[op]))
                   /\ data' = Append(data, DataLine(gens[op]))
                   /\ IF gens[op].name \in seen
                      THEN UNCHANGED <<seen, display, defs>>
                      ELSE /\ seen' = seen \cup {gens[op].name}
                           /\ display' = Append(display, DisplayLine(gens[op]))
                           /\ defs' = Append(defs, DefsLine(gens[op]))
                   /\ UNCHANGED <<pc, err>>
    /\ UNCHANGED <<doc, r_id, d_id, gens>>
    /\ UNCHANGED paletteVars

\* print data (the other three blocks are commented out).
PrintData ==
    /\ pc = "render"
    /\ i = ChainLen
    /\ stdout' = Append(stdout, [kind |-> "data", op |-> 0, body |-> data])
    /\ pc' = "done"
    /\ UNCHANGED <<doc, r_id, d_id, gens, i, seen, display, defs, read, data, err>>
    /\ UNCHANGED paletteVars

-----------------------------------------------------------------------------
(* The documents the program is run on.                                    *)

\* The operand forms of the opcode documentation.
Reg8Args == {<<"A">>, <<"F">>, <<"B">>, <<"C">>, <<"D">>, <<"E">>, <<"H">>,
            <<"L">>}

Reg16Args == {<<"A", "F">>, <<"B", "C">>, <<"D", "E">>, <<"H", "L">>,
             <<"H", "L", "P">>, <<"H", "L", "S">>, <<"S", "P">>,
             <<"P", "C">>, <<"H", "L", "+">>, <<"H", "L", "-">>}

PlaceholderArgs == {<<"d", "8">>, <<"d", "1", "6">>, <<"a", "8">>,
                   <<"a", "1", "6">>, <<"r", "8">>}

LiteralArgs == {<<"3", "8", "H">>, <<"7">>}

\* Tokens that are none of the documented forms.
UnknownArgs == {<<"C", "B">>, <<"Q">>, <<"x", "9">>}

\* The operand a written with parentheses around it.
Paren(a) == <<"(">> \o a \o <<")">>

Table(rows, cols, fill, shift, at) ==
    [rows |-> rows, cols |-> cols, fill |-> fill, shift |-> shift, at |-> at]

NoTable == Table(0, 0, <<Blank>>, 0, <<>>)

\* A table of one data row and one data column.
OneCell(cell) == Table(1, 1, <<cell>>, 0, <<>>)

\* The sequences of at most n elements of S.
SeqsUpTo(S, n) == UNION {[1..k -> S] : k \in 0..n}

\* The most operands written in a mnemonic.
MaxOperands == 2

-----------------------------------------------------------------------------
(* read_cell on one cell: the document holds a base table of one cell and  *)
(* an empty second table.  The program reads the cell, renders opcode 0    *)
(* and stops on the missing opcode 1.                                      *)

CellOps == {<<"L", "D">>, <<"B", "I", "T">>, <<"J", "P">>}

CellArgs ==
    PlaceholderArgs \cup {Paren(a) : a \in PlaceholderArgs}
    \cup {<<"A">>, <<"C">>, <<"H", "L">>, <<"(", "H", "L", ")">>,
          <<"N", "Z">>}
    \cup LiteralArgs \cup UnknownArgs

\* Cycle counts written in a timing line.
TimingVals == {0, 4, 8, 10, 12}

\* Cells that differ in their mnemonic.
MnemonicCells(n) ==
    {Instr(op, args, 1, 4, None) :
        op \in CellOps, args \in SeqsUpTo(CellArgs, n)}

\* Cells that differ in their timing line.
TimingCells ==
    {[Instr(<<"J", "R">>, <<<<"N", "Z">>, <<"r", "8">>>>, 2, x, y)
        EXCEPT !.gap = gap] :
        x \in TimingVals, y \in {None} \cup {Some(v) : v \in TimingVals},
        gap \in 0..2}

\* Cells with and without leading non-breaking spaces, with and without
\* text after them.
LeadCells ==
    {[Instr(<<"L", "D">>, <<<<"A">>, <<"B">>>>, 1, 4, None)
        EXCEPT !.lead = lead, !.body = body] :
        lead \in 0..2, body \in BOOLEAN}

CellDomain(n) == MnemonicCells(n) \cup TimingCells \cup LeadCells

InitCell ==
    \E c \in CellDomain(MaxOperands) :
        Start([base |-> OneCell(c), extend |-> NoTable])

NextCell == DoTableStep \/ RenderStep

SpecCell == InitCell /\ [][NextCell]_vars

\* The cell of the one-cell base table, and of the one-cell second table.
CellA == CellAt(doc.base, 0, 0)

CellB == CellAt(doc.extend, 0, 0)

-----------------------------------------------------------------------------
(* The whole program on a document of two tables.                          *)

\* Cells as the opcode documentation writes them, and the cell of an
\* undefined opcode.
RealFill == <<
    \* NOP  1 4
    Instr(<<"N", "O", "P">>,
          <<>>, 1, 4, None),
    \* LD BC,d16  3 12
    Instr(<<"L", "D">>,
          <<<<"B", "C">>, <<"d", "1", "6">>>>, 3, 12, None),
    \* LD (BC),A  1 8
    Instr(<<"L", "D">>,
          <<<<"(", "B", "C", ")">>, <<"A">>>>, 1, 8, None),
    \* INC B  1 4
    Instr(<<"I", "N", "C">>,
          <<<<"B">>>>, 1, 4, None),
    \* LD (a16),SP  3 20
    Instr(<<"L", "D">>,
          <<<<"(", "a", "1", "6", ")">>, <<"S", "P">>>>, 3, 20, None),
    \* JR r8  2 12
    Instr(<<"J", "R">>,
          <<<<"r", "8">>>>, 2, 12, None),
    \* JR NZ,r8  2 12/8
    Instr(<<"J", "R">>,
          <<<<"N", "Z">>, <<"r", "8">>>>, 2, 12, Some(8)),
    \* LD (HL+),A  1 8
    Instr(<<"L", "D">>,
          <<<<"(", "H", "L", "+", ")">>, <<"A">>>>, 1, 8, None),
    \* LD A,(HL-)  1 8
    Instr(<<"L", "D">>,
          <<<<"A">>, <<"(", "H", "L", "-", ")">>>>, 1, 8, None),
    \* RET NZ  1 20/8
    Instr(<<"R", "E", "T">>,
          <<<<"N", "Z">>>>, 1, 20, Some(8)),
    \* JP NZ,a16  3 16/12
    Instr(<<"J", "P">>,
          <<<<"N", "Z">>, <<"a", "1", "6">>>>, 3, 16, Some(12)),
    \* CALL C,a16  3 24/12
    Instr(<<"C", "A", "L", "L">>,
          <<<<"C">>, <<"a", "1", "6">>>>, 3, 24, Some(12)),
    \* RST 38H  1 16
    Instr(<<"R", "S", "T">>,
          <<<<"3", "8", "H">>>>, 1, 16, None),
    \* LDH (a8),A  2 12
    Instr(<<"L", "D", "H">>,
          <<<<"(", "a", "8", ")">>, <<"A">>>>, 2, 12, None),
    \* LD (C),A  2 8
    Instr(<<"L", "D">>,
          <<<<"(", "C", ")">>, <<"A">>>>, 2, 8, None),
    \* ADD SP,r8  2 16
    Instr(<<"A", "D", "D">>,
          <<<<"S", "P">>, <<"r", "8">>>>, 2, 16, None),
    \* JP (HL)  1 4
    Instr(<<"J", "P">>,
          <<<<"(", "H", "L", ")">>>>, 1, 4, None),
    \* LD HL,SP+r8  2 12
    Instr(<<"L", "D">>,
          <<<<"H", "L">>, <<"S", "P", "+", "r", "8">>>>, 2, 12, None),
    \* BIT 7,(HL)  2 16
    Instr(<<"B", "I", "T">>,
          <<<<"7">>, <<"(", "H", "L", ")">>>>, 2, 16, None),
    \* SET 0,A  2 8
    Instr(<<"S", "E", "T">>,
          <<<<"0">>, <<"A">>>>, 2, 8, None),
    \* STOP 0  2 4
    Instr(<<"S", "T", "O", "P">>,
          <<<<"0">>>>, 2, 4, None),
    \* PREFIX CB  1 4
    Instr(<<"P", "R", "E", "F", "I", "X">>,
          <<<<"C", "B">>>>, 1, 4, None),
    \* LD A,B  1 4
    Instr(<<"L", "D">>,
          <<<<"A">>, <<"B">>>>, 1, 4, None),
    Blank >>

\* The same cells and one more, the register load with the signed offset
\* placeholder as its second operand.
OddFill == RealFill \o
    <<Instr(<<"L", "D">>, <<<<"A">>, <<"r", "8">>>>, 2, 8, None)>>

\* Cells read_cell stops on: an operand that fails the assertion, an operand
\* that is no key of conv, a timing line without non-breaking space, an
\* empty cell.
BadCells ==
    {Instr(<<"L", "D">>, <<<<"Q">>, <<"A">>>>, 1, 4, None),
     Instr(<<"L", "D">>, <<<<"A">>, <<"x", "9">>>>, 1, 4, None),
     [Instr(<<"N", "O", "P">>, <<>>, 1, 4, None) EXCEPT !.gap = 0],
     [Blank EXCEPT !.lead = 0]}

\* How far the cells of the second table are shifted against the first.
ExtendShift == 5

\* The largest shift of the cells of a table.
MaxShift == 1

\* Two tables of 16 rows by 16 columns.
SquareDocs ==
    {[base |-> Table(16, 16, fill, sh, <<>>),
      extend |-> Table(16, 16, fill, sh + ExtendShift, <<>>)] :
        fill \in {RealFill, OddFill}, sh \in 0..MaxShift}

\* The same with one cell read_cell stops on, in the first or the second
\* table.
HaltingDocs ==
    {[base |-> Table(16, 16, RealFill, 0, pos :> bad),
      extend |-> Table(16, 16, RealFill, ExtendShift, <<>>)] :
        pos \in {<<0, 0>>, <<15, 15>>}, bad \in BadCells}
    \cup
    {[base |-> Table(16, 16, RealFill, 0, <<>>),
      extend |-> Table(16, 16, RealFill, ExtendShift, <<3, 7>> :> bad)] :
        bad \in BadCells}

\* Tables of other sizes.
OtherDocs ==
    {[base |-> Table(dim[1], dim[2], RealFill, 0, <<>>),
      extend |-> Table(16, 16, RealFill, ExtendShift, <<>>)] :
        dim \in {<<15, 16>>, <<16, 15>>, <<16, 17>>, <<17, 16>>}}
    \cup
    {[base |-> Table(16, 16, RealFill, 0, <<>>), extend |-> NoTable]}

Init == \E d \in SquareDocs \cup HaltingDocs \cup OtherDocs : Start(d)

Next == DoTableStep \/ RenderStep \/ PrintData

Spec == Init /\ [][Next]_vars

-----------------------------------------------------------------------------
(* Properties of the whole program (specification Spec).                   *)

\* Both tables have 16 data rows and 16 data columns.
SixteenBySixteen ==
    /\ doc.base.rows = 16 /\ doc.base.cols = 16
    /\ doc.extend.rows = 16 /\ doc.extend.cols = 16

\* The keys of the 256 base opcodes and of the 256 prefixed opcodes
\* (0xCB00 = 51968).
AllOpcodes == (0..255) \cup {51968 + k : k \in 0..255}

\* The opcodes of the debug lines printed by the render loop, in order.
Visited ==
    LET dbg == SelectSeq(stdout, LAMBDA e : e.kind = "debug")
    IN  [n \in 1..Len(dbg) |-> dbg[n].op]

\* C1: with two tables of 16 by 16 cells, once both are walked gens holds
\* exactly the 512 keys row*16+column and 0xCB00+row*16+column, the record
\* under each key being the one read from the cell of that row and column;
\* the render loop visits keys of gens only, none twice, and when it is done
\* it has visited all 512.
C1_OneRecordPerOpcode ==
    (pc \in {"render", "done"} /\ SixteenBySixteen) =>
        /\ DOMAIN gens = AllOpcodes
        /\ Cardinality(DOMAIN gens) = 512
        /\ (i = 0 =>
              \A r \in 0..15, d \in 0..15 :
                 /\ gens[r * 16 + d] =
                      ReadCell(r * 16 + d,
                               CellText(CellAt(doc.base, r, d))).g
                 /\ gens[51968 + r * 16 + d] =
                      ReadCell(51968 + r * 16 + d,
                               CellText(CellAt(doc.extend, r, d))).g)
        /\ LET v == Visited
               seenOps == {v[n] : n \in 1..Len(v)}
           IN  /\ Len(v) = i
               /\ seenOps \subseteq DOMAIN gens
               /\ Cardinality(seenOps) = Len(v)
               /\ (pc = "done" =>
                     /\ seenOps = DOMAIN gens
                     /\ Len(read) = 512 /\ Len(data) = 512)

\* C1's case: the run on two 16 by 16 tables has printed the data block.
C1_Witness == pc = "done" /\ SixteenBySixteen /\ Len(Visited) = 512

\* The operand tokens of a cell, parentheses removed.
OperandTokens(cell) ==
    LET items == Tail(SplitItems(CleanMnem(MnemText(cell.op, cell.args))))
    IN  [k \in 1..Len(items) |-> StripParens(items[k])]

AllDigits(t) == \A k \in 1..Len(t) : t[k] \in Digit

\* The token is one of the operand forms the documentation names.
Documented(op, t) ==
    \/ /\ op \in {<<"J", "P">>, <<"J", "R">>, <<"C", "A", "L", "L">>,
                  <<"R", "E", "T">>}
       /\ t \in {<<"Z">>, <<"N", "Z">>, <<"C">>, <<"N", "C">>}
    \/ t \in {<<"A", "F">>, <<"B", "C">>, <<"D", "E">>, <<"H", "L">>,
              <<"H", "L", "P">>, <<"H", "L", "S">>, <<"S", "P">>,
              <<"P", "C">>}
    \/ t \in {<<"A">>, <<"F">>, <<"B">>, <<"C">>, <<"D">>, <<"E">>, <<"H">>,
              <<"L">>}
    \/ Len(t) >= 2 /\ t[Len(t)] = "H" /\ AllDigits(SubSeq(t, 1, Len(t) - 1))
    \/ Len(t) >= 1 /\ AllDigits(t)
    \/ t \in {<<"d", "8">>, <<"d", "1", "6">>, <<"a", "8">>,
              <<"a", "1", "6">>, <<"r", "8">>}

\* The cell has a mnemonic with an operand token of no documented form.
HasUnknownToken(cell) ==
    /\ cell.body /\ cell.lead = 0
    /\ \E k \in 1..Len(OperandTokens(cell)) :
          ~Documented(cell.op, OperandTokens(cell)[k])

\* do_table has read the cell (r, d) of table tbl and gone on.
Passed(tbl, r, d) ==
    \/ pc = tbl /\ (r < r_id \/ (r = r_id /\ d < d_id))
    \/ tbl = "base" /\ pc \in {"extend", "render", "done"}
    \/ tbl = "extend" /\ pc \in {"render", "done"}

DataPrinted == \E n \in 1..Len(stdout) : stdout[n].kind = "data"

\* C3: generation halts at a cell with an operand token of no documented
\* form: do_table never goes on past such a cell, and a run that halted has
\* printed no generated block.
C3_HaltsOnUnknownToken ==
    /\ \A tbl \in {"base", "extend"} :
          \A r \in 0..(doc[tbl].rows - 1), d \in 0..(doc[tbl].cols - 1) :
             Passed(tbl, r, d) => ~HasUnknownToken(CellAt(doc[tbl], r, d))
    /\ (pc = "halted" => ~DataPrinted)

\* C9: the cycle counts of every line of the data block, multiplied by 4,
\* are the cycle counts of the record of the opcode the line was made for.
C9_CyclesWithoutLoss ==
    \A n \in 1..Len(data) :
        LET g == gens[RenderOrder(n - 1)]
        IN  /\ data[n].cycles * 4 = g.cycles
            /\ (g.cycles_false # None =>
                  /\ data[n].cycles_branch # None
                  /\ data[n].cycles_branch[1] * 4 = g.cycles_false[1])

\* C10: two records with the same generic shape name have the same list of
\* field types.
C10_SameNameSameElems ==
    \A k1, k2 \in DOMAIN gens :
        gens[k1].name = gens[k2].name => gens[k1].elems = gens[k2].elems

-----------------------------------------------------------------------------
(* Properties of read_cell on one cell (specification SpecCell).           *)

\* The cell is written as a mnemonic and timing text with nothing before.
PlainCell(cell) == cell.body /\ cell.lead = 0

Min(a, b) == IF a <= b THEN a ELSE b

Max(a, b) == IF a <= b THEN b ELSE a

\* C2 as stated: of a timing "X/Y" the record keeps the smaller count as
\* its cycle count and the larger as its not-taken count, whatever their
\* order, and the data line reports each divided by 4.
C2_SmallerIsBase ==
    (0 \in DOMAIN gens /\ PlainCell(CellA) /\ CellA.y # None) =>
        /\ gens[0].cycles = Min(CellA.x, CellA.y[1])
        /\ gens[0].cycles_false = Some(Max(CellA.x, CellA.y[1]))
        /\ (Len(data) > 0 =>
              /\ data[1].cycles = Min(CellA.x, CellA.y[1]) \div 4
              /\ data[1].cycles_branch = Some(Max(CellA.x, CellA.y[1]) \div 4))

\* C2 as amended: of a timing "X/Y" with Y not 0 the record keeps Y, the
\* second count, as its cycle count and X, the first, as its not-taken
\* count; with Y = 0 it keeps X and 0 as written; the data line reports
\* each divided by 4, rounded down.
C2_SecondIsBase ==
    (0 \in DOMAIN gens /\ PlainCell(CellA) /\ CellA.y # None) =>
        LET x == CellA.x
            y == CellA.y[1]
            c == IF y # 0 THEN y ELSE x
            f == IF y # 0 THEN x ELSE y
        IN  /\ gens[0].cycles = c
            /\ gens[0].cycles_false = Some(f)
            /\ (Len(data) > 0 =>
                  /\ data[1].cycles = c \div 4
                  /\ data[1].cycles_branch = Some(f \div 4))

\* C2's case: a cell with timing X/Y, X < Y, has been read and rendered.
C2_Witness ==
    /\ 0 \in DOMAIN gens /\ PlainCell(CellA) /\ CellA.y # None
    /\ CellA.x < CellA.y[1] /\ CellA.x > 0
    /\ Len(data) = 1

\* The field type, the width and the cast the documentation gives a
\* placeholder.
PlaceholderRead(a) ==
    CASE a \in {<<"d", "8">>, <<"a", "8">>} ->
            [elem |-> <<"u", "8">>, width |-> <<"8">>, cast |-> <<>>]
      [] a \in {<<"d", "1", "6">>, <<"a", "1", "6">>} ->
            [elem |-> <<"u", "1", "6">>, width |-> <<"1", "6">>, cast |-> <<>>]
      [] a = <<"r", "8">> ->
            [elem |-> <<"i", "8">>, width |-> <<"8">>,
             cast |-> <<" ", "a", "s", " ", "i", "8">>]

\* C5: in the record of a cell, each operand that is a placeholder, with or
\* without parentheses, has the field type of its declared width and
\* signedness and one read expression of that width, cast to i8 for r8 only;
\* each operand has one field type and one init expression.
C5_PlaceholderReads ==
    (0 \in DOMAIN gens /\ PlainCell(CellA)) =>
        /\ Len(gens[0].elems) = Len(CellA.args)
        /\ Len(gens[0].init) = Len(CellA.args)
        /\ \A k \in 1..Len(CellA.args) :
              StripParens(CellA.args[k]) \in PlaceholderArgs =>
                 LET e == PlaceholderRead(StripParens(CellA.args[k]))
                 IN  /\ gens[0].elems[k] = e.elem
                     /\ gens[0].init[k] =
                          << <<"read_u{}(bytes)?{}">>, e.width, e.cast >>

\* C5's case: a branch mnemonic with the parenthesised offset placeholder
\* and another placeholder has been read.
C5_Witness ==
    /\ 0 \in DOMAIN gens /\ PlainCell(CellA)
    /\ CellA.op = <<"J", "P">>
    /\ CellA.args = << <<"(", "r", "8", ")">>, <<"a", "1", "6">> >>

\* C6: the record of a cell that holds non-breaking spaces only is the
\* invalid-opcode record, and the record of every other cell is built from
\* the cell's own mnemonic and timing text.
C6_OnlyBlankIsInvalid ==
    0 \in DOMAIN gens =>
        IF CellA.lead > 0 /\ ~CellA.body
        THEN /\ gens[0].name = <<"I", "N", "V", "A", "L", "I", "D">>
             /\ gens[0].size = 1 /\ gens[0].cycles = 1
             /\ gens[0].cycles_false = None
             /\ gens[0].elems = <<>> /\ gens[0].init = <<>>
        ELSE /\ gens[0].op_name = CellA.op
             /\ gens[0].size = CellA.bytes

-----------------------------------------------------------------------------
(* read_cell on two cells that differ in one register operand: the         *)
(* document holds two tables of one cell each (specification SpecPair).    *)

PairOps == {<<"L", "D">>, <<"B", "I", "T">>, <<"J", "P">>}

\* The operands written beside the one that differs.
ContextArgs == {<<"7">>, <<"(", "H", "L", ")">>, <<"d", "8">>}

\* The ways the documentation writes a 16-bit register.
Reg16Forms == Reg16Names \o << <<"H", "L", "+">>, <<"H", "L", "-">> >>

\* The pairs of different positions of a list of n names.
IndexPairs(n) == {jk \in (1..n) \X (1..n) : jk[1] < jk[2]}

\* The pairs of operands that differ: two 8-bit registers, two 16-bit
\* registers (both direct or both in parentheses), or a register direct and
\* in parentheses.
DifferingOperands ==
    {[rel |-> "reg8",
      a |-> IF par THEN Paren(Reg8Names[jk[1]]) ELSE Reg8Names[jk[1]],
      b |-> IF par THEN Paren(Reg8Names[jk[2]]) ELSE Reg8Names[jk[2]]] :
        jk \in IndexPairs(Len(Reg8Names)), par \in BOOLEAN}
    \cup
    {[rel |-> "reg16",
      a |-> IF par THEN Paren(Reg16Forms[jk[1]]) ELSE Reg16Forms[jk[1]],
      b |-> IF par THEN Paren(Reg16Forms[jk[2]]) ELSE Reg16Forms[jk[2]]] :
        jk \in IndexPairs(Len(Reg16Forms)), par \in BOOLEAN}
    \cup
    {[rel |-> "indirect", a |-> r, b |-> Paren(r)] :
        r \in Reg8Args \cup Reg16Args}

\* The operand lists with operand v at position p among context operands.
ArgsAround(ctx, p, v) ==
    [k \in 1..(Len(ctx) + 1) |->
        IF k < p THEN ctx[k] ELSE IF k = p THEN v ELSE ctx[k - 1]]

PairDocs(n) ==
    UNION {
      {[base |-> OneCell(Instr(op, ArgsAround(ctx, p, dif.a), 1, 4, None)),
        extend |-> OneCell(Instr(op, ArgsAround(ctx, p, dif.b), 1, 4, None)),
        rel |-> dif.rel] :
          op \in PairOps, dif \in DifferingOperands,
          p \in 1..(Len(ctx) + 1)} :
      ctx \in SeqsUpTo(ContextArgs, n - 1)}

InitPair == \E d \in PairDocs(MaxOperands) : Start(d)

NextPair == DoTableStep \/ RenderStep

SpecPair == InitPair /\ [][NextPair]_vars

\* C4: under an operation name other than JP, JR, CALL and RET, two
\* mnemonics that differ in one operand only have the same generic shape
\* name when the operand is an 8-bit register in both or a 16-bit register
\* in both, and different names when it is a register written without
\* parentheses in one and with parentheses in the other.
C4_ShapeIgnoresRegister ==
    (pc \notin {"base", "extend"} /\ ~IsBranchName(CellA.op)) =>
        /\ DOMAIN gens = {0, 51968}
        /\ (doc.rel \in {"reg8", "reg16"} => gens[0].name = gens[51968].name)
        /\ (doc.rel = "indirect" => gens[0].name # gens[51968].name)

\* C4's case: "LD (HL),B" and "LD (HL),L" have been read.
C4_Witness ==
    /\ pc = "render"
    /\ CellA.op = <<"L", "D">> /\ CellA.args = << <<"(", "H", "L", ")">>, <<"B">> >>
    /\ CellB.op = <<"L", "D">> /\ CellB.args = << <<"(", "H", "L", ")">>, <<"L">> >>
    /\ gens[0].name = <<"L", "D", "_", "i", "r", "1", "6", "_", "r", "8">>
    /\ gens[51968].name = gens[0].name

-----------------------------------------------------------------------------
(* colors.py: the palette transpiler.  Text is a sequence of one-character *)
(* strings as above.  A field of a row of manual or custom is a string     *)
(* until the substitution pass assigns the index of its color to it.       *)

\* The characters chr(32) .. chr(95), in the order of their codes.
Printable ==
    <<" ", "!", "\"", "#", "$", "%", "&", "'", "(", ")", "*", "+", ",",
      "-", ".", "/", "0", "1", "2", "3", "4", "5", "6", "7", "8", "9", ":",
      ";", "<", "=", ">", "?", "@", "A", "B", "C", "D", "E", "F", "G", "H",
      "I", "J", "K", "L", "M", "N", "O", "P", "Q", "R", "S", "T", "U", "V",
      "W", "X", "Y", "Z", "[", "\\", "]", "^", "_">>

\* The characters chr(97) .. chr(126), in the order of their codes.
PrintableFromLower ==
    <<"a", "b", "c", "d", "e", "f", "g", "h", "i", "j", "k", "l", "m", "n",
      "o", "p", "q", "r", "s", "t", "u", "v", "w", "x", "y", "z", "{", "|",
      "}", "~">>

\* ord(c)
Ord(c) ==
    IF c = "\t" THEN 9
    ELSE IF c = "\n" THEN 10
    ELSE IF c = "\r" THEN 13
    ELSE IF \E k \in 1..Len(Printable) : Printable[k] = c
         THEN 31 + (CHOOSE k \in 1..Len(Printable) : Printable[k] = c)
    ELSE 96 + (CHOOSE k \in 1..Len(PrintableFromLower) : PrintableFromLower[k] = c)

\* a < b on strings: the codes of the first characters that differ decide,
\* and a proper prefix is the smaller.
RECURSIVE StrLess(_, _)
StrLess(a, b) ==
    IF b = <<>> THEN FALSE
    ELSE IF a = <<>> THEN TRUE
    ELSE IF a[1] # b[1] THEN Ord(a[1]) < Ord(b[1])
    ELSE StrLess(Tail(a), Tail(b))

\* s[a:b] for 0 <= a and 0 <= b.
Slice(s, a, b) == SubSeq(s, a + 1, IF b < Len(s) THEN b ELSE Len(s))

\* s[a:]
SliceFrom(s, a) == SubSeq(s, a + 1, Len(s))

\* s[a:-1]
SliceDropLast(s, a) == SubSeq(s, a + 1, Len(s) - 1)

\* A field that holds the string s, and a field that holds the integer k.
StrField(s) == [tag |-> "str", str |-> s, int |-> 0]

IntField(k) == [tag |-> "int", str |-> <<>>, int |-> k]

\* "{}".format(f) of a field.
FieldText(f) == IF f.tag = "str" THEN f.str ELSE Digits(f.int)

\* "{}".format(l) of a list l of fields that hold integers: "[0, 1, 2]".
ListText(l) ==
    <<"[">> \o Join(<<",", " ">>, [k \in 1..Len(l) |-> FieldText(l[k])]) \o <<"]">>

TAB == <<"\t">>

CRLF == <<"\r", "\n">>

\* map(lambda x: x.split("\t")[2:-1], text.split("\r\n")[1:-1])
ParseCsv(text) ==
    LET lines == SliceDropLast(SplitLit(text, CRLF), 1)
    IN  [r \in 1..Len(lines) |->
            LET fields == SliceDropLast(SplitLit(lines[r], TAB), 2)
            IN  [c \in 1..Len(fields) |-> StrField(fields[c])]]

\* The strings held by the fields of l.
Strings(l) == {l[c].str : c \in 1..Len(l)}

\* The smallest string of the non-empty set S.
Least(S) == CHOOSE a \in S : \A b \in S \ {a} : StrLess(a, b)

\* A slip: the list of the keys left as the dictionary gives them (here the
\* largest first).
RECURSIVE Unsorted(_)
Unsorted(S) ==
    IF S = {} THEN <<>>
    ELSE LET a == CHOOSE x \in S : \A b \in S \ {x} : StrLess(b, x)
         IN  <<a>> \o Unsorted(S \ {a})

\* all_c = list(colors.keys()); all_c.sort()
RECURSIVE Sorted(_)
Sorted(S) ==
    IF S = {} THEN <<>>
    ELSE <<Least(S)>> \o Sorted(S \ {Least(S)})

\* dict([(v, k) for (k, v) in enumerate(l)])
Enumerate(l) ==
    [v \in {l[k] : k \in 1..Len(l)} |-> (CHOOSE k \in 1..Len(l) : l[k] = v) - 1]

\* "[0x{}, 0x{}, 0x{}],".format(c[1:3], c[3:5], c[5:7])
TableLine(c) ==
    <<"[", "0", "x">> \o Slice(c, 1, 3) \o <<",", " ", "0", "x">>
    \o Slice(c, 3, 5) \o <<",", " ", "0", "x">> \o Slice(c, 5, 7)
    \o <<"]", ",">>

\* The row m with keys[m[c]] assigned to m[c] for c in range(first, len(m)).
Substitute(m, first) ==
    [c \in 1..Len(m) |-> IF c - 1 >= first THEN IntField(keys[m[c].str]) ELSE m[c]]

\* "KeyPalette {{keys: \"{}\", palette: Palette {{ bg:{}, obj0:{}, obj1:{} }}}},"
\*     .format(m[0], m[1:5], m[5:9], m[9:13])
KeyPaletteLine(m) ==
    <<"K", "e", "y", "P", "a", "l", "e", "t", "t", "e", " ", "{", "k", "e",
      "y", "s", ":", " ", "\"">>
    \o FieldText(m[1])
    \o
    <<"\"", ",", " ", "p", "a", "l", "e", "t", "t", "e", ":", " ", "P",
      "a", "l", "e", "t", "t", "e", " ", "{", " ", "b", "g", ":">>
    \o ListText(Slice(m, 1, 5)) \o
    <<",", " ", "o", "b", "j", "0", ":">>
    \o ListText(Slice(m, 5, 9)) \o
    <<",", " ", "o", "b", "j", "1", ":">>
    \o ListText(Slice(m, 9, 13)) \o
    <<" ", "}", "}", ",">>

\* A slip: the key written from the first two groups of slots only.
CustomPaletteWithoutObj1(m) ==
    <<"C", "u", "s", "t", "o", "m", "P", "a", "l", "e", "t", "t", "e", " ",
      "{", "b", "g", ":">>
    \o ListText(Slice(m, 3, 7)) \o
    <<",", " ", "o", "b", "j", "0", ":", " ">>
    \o ListText(Slice(m, 7, 11)) \o
    <<" ", "}">>

\* "CustomPalette {{bg:{}, obj0: {}, obj1: {} }}".format(m[3:7], m[7:11], m[11:15])
CustomPalette(m) ==
    <<"C", "u", "s", "t", "o", "m", "P", "a", "l", "e", "t", "t", "e", " ",
      "{", "b", "g", ":">>
    \o ListText(Slice(m, 3, 7)) \o
    <<",", " ", "o", "b", "j", "0", ":", " ">>
    \o ListText(Slice(m, 7, 11)) \o
    <<",", " ", "o", "b", "j", "1", ":", " ">>
    \o ListText(Slice(m, 11, 15)) \o
    <<" ", "}">>

\* "({}, {})".format(m[0], m[1] if m[1] else "_")
Member(m) ==
    <<"(">> \o FieldText(m[1]) \o <<",", " ">>
    \o (IF m[2].str # <<>> THEN FieldText(m[2]) ELSE <<"_">>) \o <<")">>

\* matches[key].append(member) on the defaultdict(list) d.
AppendTo(d, key, member) ==
    [k \in DOMAIN d \cup {key} |->
        IF k = key THEN Append(IF key \in DOMAIN d THEN d[key] ELSE <<>>, member)
        ELSE d[k]]

\* "{} => {},".format("|".join(v), m)
GroupLine(v, m) == Join(<<"|">>, v) \o <<" ", "=", ">", " ">> \o m \o <<",">>

-----------------------------------------------------------------------------
(* The two files of colors.py.  A file is given by its data rows, a row by *)
(* its name, its variant (custom rows) and its colors; FileText writes the *)
(* text the script reads: a header line, the data rows, each line ended by *)
(* "\r\n", each row with two columns before the name and one column after  *)
(* the last color.                                                         *)

HeaderText == <<"i", "d", "\t", "-", "\t", "n", "a", "m", "e", "\t", "-">>

\* A row of listButtonCombos.csv.
ManualRowText(r) == Join(TAB, << <<"1">>, <<>>, r.name >> \o r.cols \o << <<>> >>)

\* A row of listUsedWNames.csv: the column after the variant is not read.
CustomRowText(r) ==
    Join(TAB, << <<"1">>, <<>>, r.name, r.variant, <<"x">> >> \o r.cols \o << <<>> >>)

\* open(...).read()
FileText(rowTexts) == Join(CRLF, <<HeaderText>> \o rowTexts \o << <<>> >>)

ManualFileText(rows) == FileText([k \in 1..Len(rows) |-> ManualRowText(rows[k])])

CustomFileText(rows) == FileText([k \in 1..Len(rows) |-> CustomRowText(rows[k])])

\* The opcode-table transpiler is not run.
NoDocument ==
    /\ doc = [base |-> NoTable, extend |-> NoTable]
    /\ r_id = 0
    /\ d_id = 0
    /\ gens = <<>>
    /\ i = 0
    /\ seen = {}
    /\ display = <<>>
    /\ defs = <<>>
    /\ read = <<>>
    /\ data = <<>>

opcodeVars == <<doc, r_id, d_id, gens, i, seen, display, defs, read, data>>

\* Where the script goes on after the loop over manual, over custom.
AfterManual(next, last) == IF Len(custom) > 0 THEN next ELSE last

\* The state in which colors.py starts on the files with the data rows
\* mrows and crows (both files are read here; the script reads the second
\* after its first loop, which does not touch it).
StartColors(mrows, crows) ==
    /\ csv = [manual |-> mrows, custom |-> crows]
    /\ manual = ParseCsv(ManualFileText(mrows))
    /\ custom = ParseCsv(CustomFileText(crows))
    /\ colors = {}
    /\ all_c = <<>>
    /\ keys = <<>>
    /\ matches = <<>>
    /\ row = 0
    /\ emitted = {}
    /\ pc = IF Len(mrows) > 0 THEN "collect_manual"
            ELSE IF Len(crows) > 0 THEN "collect_custom" ELSE "sort"
    /\ stdout = <<>>
    /\ err = ""
    /\ NoDocument

\* for m in manual: for c in m[1:]: colors[c] = True
CollectManual ==
    /\ pc = "collect_manual"
    /\ row < Len(manual)
    /\ colors' = colors \cup Strings(SliceFrom(manual[row + 1], 1))
    /\ IF row + 1 < Len(manual)
       THEN row' = row + 1 /\ pc' = pc
       ELSE row' = 0 /\ pc' = AfterManual("collect_custom", "sort")
    /\ UNCHANGED <<csv, manual, custom, all_c, keys, matches, emitted, stdout, err>>
    /\ UNCHANGED opcodeVars

\* for m in custom: for c in m[3:]: colors[c] = True
CollectCustom ==
    /\ pc = "collect_custom"
    /\ row < Len(custom)
    /\ colors' = colors \cup Strings(SliceFrom(custom[row + 1], 3))
    /\ IF row + 1 < Len(custom)
       THEN row' = row + 1 /\ pc' = pc
       ELSE row' = 0 /\ pc' = "sort"
    /\ UNCHANGED <<csv, manual, custom, all_c, keys, matches, emitted, stdout, err>>
    /\ UNCHANGED opcodeVars

\* all_c = list(colors.keys()); all_c.sort(); keys = dict(...)
SortKeys ==
    /\ pc = "sort"
    /\ LET l == Sorted(colors)
       IN  /\ all_c' = l
           /\ keys' = Enumerate(l)
           /\ pc' = IF Len(l) > 0 THEN "table" ELSE "print_keys"
    /\ UNCHANGED <<csv, manual, custom, colors, matches, row, emitted, stdout, err>>
    /\ UNCHANGED opcodeVars

\* for c in all_c: print "[0x{}, 0x{}, 0x{}],".format(...)
TableRow ==
    /\ pc = "table"
    /\ row < Len(all_c)
    /\ stdout' = Append(stdout, [kind |-> "table", op |-> 0,
                                 body |-> TableLine(all_c[row + 1])])
    /\ IF row + 1 < Len(all_c)
       THEN row' = row + 1 /\ pc' = pc
       ELSE row' = 0 /\ pc' = "print_keys"
    /\ UNCHANGED <<csv, manual, custom, colors, all_c, keys, matches, emitted, err>>
    /\ UNCHANGED opcodeVars

\* print(keys): the text of the dictionary, whose order is the dictionary's
\* own, is left out of the line.
PrintKeys ==
    /\ pc = "print_keys"
    /\ stdout' = Append(stdout, [kind |-> "keys", op |-> 0, body |-> <<>>])
    /\ pc' = IF Len(manual) > 0 THEN "subst_manual"
             ELSE AfterManual("match_custom", "end")
    /\ UNCHANGED <<csv, manual, custom, colors, all_c, keys, matches, row, emitted, err>>
    /\ UNCHANGED opcodeVars

\* for m in manual: m[c] = keys[m[c]] for c in range(1, len(m)); print(...)
SubstManual ==
    /\ pc = "subst_manual"
    /\ row < Len(manual)
    /\ LET m == Substitute(manual[row + 1], 1)
       IN  /\ manual' = [manual EXCEPT ![row + 1] = m]
           /\ stdout' = Append(stdout, [kind |-> "manual", op |-> 0,
                                        body |-> KeyPaletteLine(m)])
    /\ IF row + 1 < Len(manual)
       THEN row' = row + 1 /\ pc' = pc
       ELSE row' = 0 /\ pc' = AfterManual("match_custom", "end")
    /\ UNCHANGED <<csv, custom, colors, all_c, keys, matches, emitted, err>>
    /\ UNCHANGED opcodeVars

\* for m in custom: m[c] = keys[m[c]] for c in range(3, len(m));
\*     matches[...].append(...)
MatchCustom ==
    /\ pc = "match_custom"
    /\ row < Len(custom)
    /\ LET m == Substitute(custom[row + 1], 3)
       IN  /\ custom' = [custom EXCEPT ![row + 1] = m]
           /\ matches' = AppendTo(matches, CustomPalette(m), Member(m))
    /\ IF row + 1 < Len(custom)
       THEN row' = row + 1 /\ pc' = pc
       ELSE row' = 0 /\ pc' = "emit"
    /\ UNCHANGED <<csv, manual, colors, all_c, keys, emitted, stdout, err>>
    /\ UNCHANGED opcodeVars

\* for m, v in matches.iteritems(): print ...  The dictionary gives its
\* keys in an order of its own: any key not yet passed may be the next.
EmitGroup ==
    /\ pc = "emit"
    /\ \E m \in DOMAIN matches \ emitted :
          /\ stdout' = Append(stdout, [kind |-> "group", op |-> 0,
                                       body |-> GroupLine(matches[m], m)])
          /\ emitted' = emitted \cup {m}
          /\ pc' = IF emitted \cup {m} = DOMAIN matches THEN "end" ELSE pc
    /\ UNCHANGED <<csv, manual, custom, colors, all_c, keys, matches, row, err>>
    /\ UNCHANGED opcodeVars

\* The colors of the files.
CWhite == <<"#", "F", "F", "F", "F", "F", "F">>

CBlack == <<"#", "0", "0", "0", "0", "0", "0">>

CRed == <<"#", "F", "F", "0", "0", "0", "0">>

CGreen == <<"#", "0", "0", "F", "F", "0", "0">>

CLime == <<"#", "0", "0", "f", "f", "0", "0">>

CBlue == <<"#", "0", "0", "0", "0", "F", "F">>

\* The twelve colors of a palette: bg, obj0, obj1.
Palette12(bg, obj0, obj1) == bg \o obj0 \o obj1

Shades == <<CWhite, CRed, CGreen, CBlack>>

ShadesSwapped == <<CWhite, CGreen, CRed, CBlack>>

ShadesBlue == <<CWhite, CLime, CBlue, CBlack>>

\* The rows of listButtonCombos.csv: one of twelve colors, one of two.
ManualRows ==
    {[name |-> <<"u", "p">>, cols |-> Palette12(ShadesBlue, Shades, Shades)],
     [name |-> <<"a">>, cols |-> <<CRed, CGreen>>]}

\* The rows of listUsedWNames.csv: two with the same twelve colors, one
\* that differs from them in obj1 only, one of one color; with and without
\* a variant.
CustomRows ==
    {[name |-> <<"A">>, variant |-> <<>>,
      cols |-> Palette12(Shades, Shades, Shades)],
     [name |-> <<"B">>, variant |-> <<"v">>,
      cols |-> Palette12(Shades, Shades, Shades)],
     [name |-> <<"A">>, variant |-> <<"v">>,
      cols |-> Palette12(Shades, Shades, ShadesSwapped)],
     [name |-> <<"B">>, variant |-> <<>>, cols |-> <<CRed>>]}

\* The most data rows of listButtonCombos.csv, of listUsedWNames.csv.
MaxManualRows == 2

MaxCustomRows == 3

InitColors ==
    \E mrows \in SeqsUpTo(ManualRows, MaxManualRows),
       crows \in SeqsUpTo(CustomRows, MaxCustomRows) : StartColors(mrows, crows)

NextColors ==
    \/ CollectManual
    \/ CollectCustom
    \/ SortKeys
    \/ TableRow
    \/ PrintKeys
    \/ SubstManual
    \/ MatchCustom
    \/ EmitGroup

SpecColors == InitColors /\ [][NextColors]_vars

-----------------------------------------------------------------------------
(* Properties of colors.py (specification SpecColors).                     *)

\* The places of the two files that hold a color: the file, the data row
\* and the color's position in the row (all from 1).
Occurrences ==
    UNION {{<<"manual", r, c>> : c \in 1..Len(csv.manual[r].cols)} :
                    r \in 1..Len(csv.manual)}
    \cup UNION {{<<"custom", r, c>> : c \in 1..Len(csv.custom[r].cols)} :
                    r \in 1..Len(csv.custom)}

\* The color string written at a place.
Written(o) == csv[o[1]][o[2]].cols[o[3]]

\* The field of manual or custom read from a place: the name is before the
\* colors of a manual row, the name, the variant and one more column before
\* those of a custom row.
FieldAt(o) ==
    IF o[1] = "manual" THEN manual[o[2]][o[3] + 1] ELSE custom[o[2]][o[3] + 3]

\* The color strings of the two files.
FileColors == {Written(o) : o \in Occurrences}

IsTableLine(e) == e.kind = "table"

IsGroupLine(e) == e.kind = "group"

\* The lines of the color table, and the lines of the groups, as printed.
TableLines == SelectSeq(stdout, IsTableLine)

GroupLines == SelectSeq(stdout, IsGroupLine)

\* The color table is printed.
TablePrinted == pc \notin {"collect_manual", "collect_custom", "sort", "table"}

\* C7: once the color table is printed it has one line for each distinct
\* color string of the two files, the lines are those of the color strings
\* in strictly increasing lexicographic order (no two lines alike), and the
\* index keys gives a color is its position in the table, counted from 0;
\* no two colors have the same index, and at the end of the run every place
\* of either file holds the index of the color written there, so that two
\* places hold the same index exactly when the same color string is written
\* at both.
C7_SortedTableAndIndices ==
    /\ TablePrinted =>
          /\ Len(TableLines) = Cardinality(FileColors)
          /\ Len(all_c) = Len(TableLines)
          /\ {all_c[k] : k \in 1..Len(all_c)} = FileColors
          /\ \A k \in 1..Len(all_c) : TableLines[k].body = TableLine(all_c[k])
          /\ \A k \in 1..(Len(all_c) - 1) : StrLess(all_c[k], all_c[k + 1])
          /\ \A j, k \in 1..Len(TableLines) :
                j # k => TableLines[j].body # TableLines[k].body
          /\ DOMAIN keys = FileColors
          /\ \A c \in FileColors : all_c[keys[c] + 1] = c
          /\ \A c1, c2 \in FileColors : keys[c1] = keys[c2] => c1 = c2
    /\ pc = "end" =>
          \A o \in Occurrences :
              /\ FieldAt(o).tag = "int"
              /\ FieldAt(o).int = keys[Written(o)]

\* C7's case: "#FF0000" is written in both files and "#00FF00" once; the
\* table has the two lines of "#00FF00" and "#FF0000", in this order, and
\* both places of "#FF0000" hold the index 1.
C7_Witness ==
    /\ pc = "end"
    /\ Len(csv.manual) = 1 /\ csv.manual[1].cols = <<CRed, CGreen>>
    /\ Len(csv.custom) = 1 /\ csv.custom[1].cols = <<CRed>>
    /\ Len(TableLines) = 2
    /\ TableLines[1].body = TableLine(CGreen)
    /\ TableLines[2].body = TableLine(CRed)
    /\ manual[1][2].int = 1
    /\ custom[1][4].int = 1
    /\ manual[1][3].int = 0

\* The resolved twelve slots (bg, obj0, obj1) of the custom row r.
Slots(r) == Slice(custom[r], 3, 15)

\* The custom rows that are the first with their slots.
FirstOfGroup == {r \in 1..Len(custom) : \A q \in 1..(r - 1) : Slots(q) # Slots(r)}

\* (name, variant) of the custom row q as the file gives them, the empty
\* variant as "_".
Identifier(q) ==
    <<"(">> \o csv.custom[q].name \o <<",", " ">>
    \o (IF csv.custom[q].variant = <<>> THEN <<"_">> ELSE csv.custom[q].variant)
    \o <<")">>

\* The identifiers of the rows with the slots of row r, in the order of
\* the file.
RECURSIVE MembersFrom(_, _)
MembersFrom(r, q) ==
    IF q > Len(custom) THEN <<>>
    ELSE (IF Slots(q) = Slots(r) THEN <<Identifier(q)>> ELSE <<>>)
         \o MembersFrom(r, q + 1)

\* The line of the group of row r.
ExpectedGroupLine(r) ==
    Join(<<"|">>, MembersFrom(r, 1)) \o <<" ", "=", ">", " ">>
    \o CustomPalette(custom[r]) \o <<",">>

\* C8: at the end of the run there is one group line for each distinct
\* sequence of resolved slots among the custom rows, no two lines alike, and
\* the line of a sequence lists the identifiers of exactly the rows with
\* that sequence, in the order of the file, before its palette definition.
C8_GroupsBySlots ==
    pc = "end" =>
        /\ Len(GroupLines) = Cardinality(FirstOfGroup)
        /\ {GroupLines[k].body : k \in 1..Len(GroupLines)}
              = {ExpectedGroupLine(r) : r \in FirstOfGroup}
        /\ \A j, k \in 1..Len(GroupLines) :
              j # k => GroupLines[j].body # GroupLines[k].body

\* C8's case: of three custom rows the first and the third have the same
\* twelve colors and the second differs in obj1; two group lines are
\* printed, and one of them begins "(A, _)|(B, v) => ".
C8_Witness ==
    /\ pc = "end"
    /\ Len(csv.custom) = 3
    /\ csv.custom[1].cols = Palette12(Shades, Shades, Shades)
    /\ csv.custom[2].cols = Palette12(Shades, Shades, ShadesSwapped)
    /\ csv.custom[3].cols = Palette12(Shades, Shades, Shades)
    /\ csv.custom[1].variant = <<>>
    /\ csv.custom[3].variant = <<"v">>
    /\ Len(GroupLines) = 2
    /\ \E k \in 1..2 :
          SubSeq(GroupLines[k].body, 1, 17) =
              <<"(", "A", ",", " ", "_", ")", "|", "(", "B", ",", " ", "v", ")",
                " ", "=", ">", " ">>

=============================================================================
